---------------------------- MODULE Spec2Model ----------------------------
(***************************************************************************)
(* Model of converter_app.py: DocumentConverter (capability probing and    *)
(* the per-file conversion policy) and ConverterApp (file selection, the   *)
(* background conversion worker and the UI reset).                         *)
(*                                                                         *)
(* A path is a sequence of one-character strings.  A message is a pair     *)
(* <<prefix, payload>> where the payload is a sequence of one-character    *)
(* strings.  The UI thread is "main"; a worker thread is "worker".         *)
(***************************************************************************)
EXTENDS Integers, Sequences, FiniteSets

\* Largest number of files a file dialog or a folder walk hands back.
MaxFiles == 2
\* Largest number of worker threads the model lets exist at once.
MaxThreads == 2

Range(s) == {s[k] : k \in DOMAIN s}

\* ------------------------------------------------------------------ paths

UpperLetters == <<"A", "B", "C", "D", "E", "F", "G", "H", "I", "J", "K", "L", "M",
                  "N", "O", "P", "Q", "R", "S", "T", "U", "V", "W", "X", "Y", "Z">>
LowerLetters == <<"a", "b", "c", "d", "e", "f", "g", "h", "i", "j", "k", "l", "m",
                  "n", "o", "p", "q", "r", "s", "t", "u", "v", "w", "x", "y", "z">>

\* each upper-case letter's lower-case letter
LowerOf ==
    [u \in Range(UpperLetters) |->
        LowerLetters[CHOOSE k \in DOMAIN UpperLetters : UpperLetters[k] = u]]

\* str.lower() on one character
LowerChar(c) == IF c \in DOMAIN LowerOf THEN LowerOf[c] ELSE c

\* str.lower()
Lower(s) == [k \in DOMAIN s |-> LowerChar(s[k])]

\* str.rfind(c), 1-based; 0 when c does not occur
RFind(p, c) ==
    LET hits == {k \in DOMAIN p : p[k] = c}
    IN  IF hits = {} THEN 0 ELSE CHOOSE k \in hits : \A j \in hits : j <= k

\* os.path.splitext(p)[1]: the text from the last dot of the last path
\* component, unless that component has no dot or only leading dots.
SplitExt(p) ==
    LET sepIndex == RFind(p, "/")
        dotIndex == RFind(p, ".")
    IN  IF /\ dotIndex > sepIndex
           /\ \E k \in (sepIndex + 1)..(dotIndex - 1) : p[k] # "."
        THEN SubSeq(p, dotIndex, Len(p))
        ELSE <<>>

\* os.path.basename(p)
Basename(p) == SubSeq(p, RFind(p, "/") + 1, Len(p))

\* os.path.dirname(p): the head up to the last separator, trailing
\* separators stripped unless the head is all separators.
RECURSIVE RStripSep(_)
RStripSep(h) ==
    IF h # <<>> /\ h[Len(h)] = "/" THEN RStripSep(SubSeq(h, 1, Len(h) - 1)) ELSE h

Dirname(p) ==
    LET head == SubSeq(p, 1, RFind(p, "/"))
    IN  IF head # <<>> /\ \E k \in DOMAIN head : head[k] # "/"
        THEN RStripSep(head)
        ELSE head

\* ------------------------------------------------------ DocumentConverter

supported_extensions ==
    << <<".", "d", "o", "c", "x">>, <<".", "d", "o", "c">>,
       <<".", "o", "d", "t">>, <<".", "r", "t", "f">> >>

WordExtensions == { <<".", "d", "o", "c", "x">>, <<".", "d", "o", "c">> }

Systems == {"Windows", "Darwin", "Linux"}

\* what `import docx2pdf` does on this host
ImportOutcomes == {"ok", "ImportError", "Exception"}

WinPaths == <<"C:\\Program Files\\LibreOffice\\program\\soffice.exe",
              "C:\\Program Files (x86)\\LibreOffice\\program\\soffice.exe">>
MacPaths == <<"/Applications/LibreOffice.app/Contents/MacOS/soffice">>

\* the install paths that can exist on a host of the given family
InstallPaths(sys) ==
    IF sys = "Windows" THEN Range(WinPaths)
    ELSE IF sys = "Darwin" THEN Range(MacPaths)
    ELSE {}

\* platform.system() != "Windows" gives False before any import is tried
Mut_check_word_installed(sys, imp) == imp = "ok"

_check_word_installed(sys, imp) ==
    IF sys # "Windows" THEN FALSE
    ELSE imp = "ok"

\* shutil.which(command) is not None
_is_command_available(onPath) == onPath

\* the first element of paths that exists, "" when none does
RECURSIVE FirstExisting(_, _)
FirstExisting(paths, exists) ==
    IF paths = <<>> THEN ""
    ELSE IF paths[1] \in exists THEN paths[1]
    ELSE FirstExisting(Tail(paths), exists)

\* "None" stands for Python's None
_find_libreoffice(sys, exists, onPath) ==
    IF sys \notin {"Windows", "Darwin"} THEN "soffice"
    ELSE LET paths_to_check == IF sys = "Windows" THEN WinPaths ELSE MacPaths
             found == FirstExisting(paths_to_check, exists)
         IN  IF found # "" THEN found
             ELSE IF _is_command_available(onPath) THEN "soffice" ELSE "None"

\* bytes.decode('utf-8', errors='ignore'): a byte that is not valid UTF-8 is
\* dropped.  The bytes of the model are ASCII characters and the lone byte
\* "\\xff", which no UTF-8 text holds.
RECURSIVE DecodeIgnore(_)
DecodeIgnore(bytes) ==
    IF bytes = <<>> THEN <<>>
    ELSE IF bytes[1] = "\\xff" THEN DecodeIgnore(Tail(bytes))
    ELSE <<bytes[1]>> \o DecodeIgnore(Tail(bytes))

\* What the child process does: exits 0, exits non-zero with bytes on its
\* standard error, or cannot be launched (subprocess.run raises OSError).
ExitZero == [kind |-> "exit0", stderr |-> <<>>, text |-> <<>>]
ProcOutcomes ==
    { ExitZero,
      [kind |-> "nonzero", stderr |-> <<"E", "\\xff">>, text |-> <<>>],
      [kind |-> "oserror", stderr |-> <<>>, text |-> <<"N">>] }

\* What docx2pdf.convert does: returns, or raises with a text.
WordOutcomes ==
    { [kind |-> "ok", text |-> <<>>], [kind |-> "raise", text |-> <<"W">>] }

NoCall == [kind |-> "none", stderr |-> <<>>, text |-> <<>>]
NoRet == <<FALSE, <<"", <<>>>>>>

_convert_with_libreoffice(lo_path, input_path, output_folder, proc) ==
    LET cmd == <<lo_path, "--headless", "--convert-to", "pdf",
                 input_path, "--outdir", output_folder>>
    IN  [cmd |-> cmd,
         ret |-> IF proc.kind = "exit0"
                 THEN <<TRUE, <<"Convertido com LibreOffice: ", Basename(input_path)>>>>
                 ELSE IF proc.kind = "nonzero"
                 THEN <<FALSE, <<"Erro LibreOffice: ", DecodeIgnore(proc.stderr)>>>>
                 ELSE <<FALSE, <<"Erro generico LibreOffice: ", proc.text>>>>]

\* One call of convert_to_pdf, as a record of what it did: the backends it
\* invoked (word, headless: how many times; wordOut, procOut: what each
\* did; headlessRet: what _convert_with_libreoffice returned) and result,
\* the pair it returned.
Call(input_path, output_folder, word, wordOut, headless, procOut, headlessRet, result) ==
    [input_path |-> input_path, output_folder |-> output_folder,
     word |-> word, wordOut |-> wordOut,
     headless |-> headless, procOut |-> procOut, headlessRet |-> headlessRet,
     result |-> result]

NoWord == [kind |-> "none", text |-> <<>>]

\* the extension check dropped
Mut_convert_NoExtCheck(self_has_word, self_lo, input_path, output_folder, wordOut, procOut) ==
    LET lo == _convert_with_libreoffice(self_lo, input_path, output_folder, procOut)
    IN  IF self_lo # "None"
        THEN Call(input_path, output_folder, 0, NoWord, 1, procOut, lo.ret, lo.ret)
        ELSE Call(input_path, output_folder, 0, NoWord, 0, NoCall, NoRet,
                  <<FALSE, <<"Nenhum conversor (Word ou LibreOffice) encontrado.", <<>>>>>>)

\* the fallback taken without asking whether LibreOffice was found
Mut_convert_AlwaysFallback(self_has_word, self_lo, input_path, output_folder, wordOut, procOut) ==
    LET ext == Lower(SplitExt(input_path))
        lo == _convert_with_libreoffice(self_lo, input_path, output_folder, procOut)
    IN  IF ext \notin Range(supported_extensions)
        THEN Call(input_path, output_folder, 0, NoWord, 0, NoCall, NoRet,
                  <<FALSE, <<"Extensao nao suportada: ", ext>>>>)
        ELSE IF self_has_word /\ ext \in WordExtensions
        THEN IF wordOut.kind = "ok"
             THEN Call(input_path, output_folder, 1, wordOut, 0, NoCall, NoRet,
                       <<TRUE, <<"Convertido com Word: ", Basename(input_path)>>>>)
             ELSE Call(input_path, output_folder, 1, wordOut, 1, procOut, lo.ret, lo.ret)
        ELSE IF self_lo # "None"
        THEN Call(input_path, output_folder, 0, NoWord, 1, procOut, lo.ret, lo.ret)
        ELSE Call(input_path, output_folder, 0, NoWord, 0, NoCall, NoRet,
                  <<FALSE, <<"Nenhum conversor (Word ou LibreOffice) encontrado.", <<>>>>>>)

\* the last two branches swapped: LibreOffice tried even when it was not found
Mut_convert_NoElse(self_has_word, self_lo, input_path, output_folder, wordOut, procOut) ==
    LET ext == Lower(SplitExt(input_path))
        lo == _convert_with_libreoffice(self_lo, input_path, output_folder, procOut)
    IN  IF ext \notin Range(supported_extensions)
        THEN Call(input_path, output_folder, 0, NoWord, 0, NoCall, NoRet,
                  <<FALSE, <<"Extensao nao suportada: ", ext>>>>)
        ELSE Call(input_path, output_folder, 0, NoWord, 1, procOut, lo.ret, lo.ret)

\* Word preferred for every supported extension, not only .docx and .doc
Mut_convert_WordForAll(self_has_word, self_lo, input_path, output_folder, wordOut, procOut) ==
    LET ext == Lower(SplitExt(input_path))
    IN  IF ext \notin Range(supported_extensions)
        THEN Call(input_path, output_folder, 0, NoWord, 0, NoCall, NoRet,
                  <<FALSE, <<"Extensao nao suportada: ", ext>>>>)
        ELSE IF wordOut.kind = "ok"
        THEN Call(input_path, output_folder, 1, wordOut, 0, NoCall, NoRet,
                  <<TRUE, <<"Convertido com Word: ", Basename(input_path)>>>>)
        ELSE Call(input_path, output_folder, 1, wordOut, 0, NoCall, NoRet,
                  <<FALSE, <<"Erro Word: ", wordOut.text>>>>)

convert_to_pdf(self_has_word, self_lo, input_path, output_folder, wordOut, procOut) ==
    LET ext == Lower(SplitExt(input_path))
        filename == Basename(input_path)
        use_word == self_has_word /\ ext \in WordExtensions
        lo == _convert_with_libreoffice(self_lo, input_path, output_folder, procOut)
    IN  IF ext \notin Range(supported_extensions)
        THEN Call(input_path, output_folder, 0, NoWord, 0, NoCall, NoRet,
                  <<FALSE, <<"Extensao nao suportada: ", ext>>>>)
        ELSE IF use_word
        THEN IF wordOut.kind = "ok"
             THEN Call(input_path, output_folder, 1, wordOut, 0, NoCall, NoRet,
                       <<TRUE, <<"Convertido com Word: ", filename>>>>)
             ELSE IF self_lo # "None"
             THEN Call(input_path, output_folder, 1, wordOut, 1, procOut, lo.ret, lo.ret)
             ELSE Call(input_path, output_folder, 1, wordOut, 0, NoCall, NoRet,
                       <<FALSE, <<"Erro Word: ", wordOut.text>>>>)
        ELSE IF self_lo # "None"
        THEN Call(input_path, output_folder, 0, NoWord, 1, procOut, lo.ret, lo.ret)
        ELSE Call(input_path, output_folder, 0, NoWord, 0, NoCall, NoRet,
                  <<FALSE, <<"Nenhum conversor (Word ou LibreOffice) encontrado.", <<>>>>>>)

\* ------------------------------------------------------------ ConverterApp
\* What the constructor reads of the host and keeps nowhere (whether
\* docx2pdf imports, which install paths exist) is drawn in Init.

VARIABLES
    system, onPath,                         \* the host: its OS, soffice on PATH
    has_word, libreoffice_path,             \* DocumentConverter's snapshot
    selected_files, is_converting,          \* ConverterApp's fields
    btn_file, btn_folder, btn_convert,      \* each button's state and text
    lbl_selection, progress_bar,
    log_box,                                \* the last line of the log
    messagebox,                             \* the last dialog shown
    afterQueue,                             \* callbacks scheduled with after()
    threads,                                \* the running worker threads
    uiUpdates                               \* <<widget, thread>>: who changed what

env == <<system, onPath, has_word, libreoffice_path>>
buttons == <<btn_file, btn_folder, btn_convert>>
vars == <<system, onPath, has_word, libreoffice_path,
          selected_files, is_converting, btn_file, btn_folder, btn_convert,
          lbl_selection, progress_bar, log_box, messagebox, afterQueue,
          threads, uiUpdates>>

\* The paths a user can pick or a folder walk can find.
Paths ==
    { <<"a", ".", "d", "o", "c", "x">>,
      <<"B", ".", "D", "O", "C">>,
      <<"d", "/", "c", ".", "o", "d", "t">>,
      <<"e", ".", "r", "t", "f">>,
      <<"f", ".", "t", "x", "t">> }

\* What a dialog or a walk hands back: up to MaxFiles distinct paths.
FileLists ==
    UNION { {f \in [1..n -> Paths] : \A j, k \in 1..n : j # k => f[j] # f[k]}
            : n \in 0..MaxFiles }

Line(tag, n, m, msg) == [tag |-> tag, n |-> n, m |-> m, msg |-> msg]
NoMsg == <<"", <<>>>>

\* widget.configure / insert / set called by `thread`
Touch(widgets, thread) == uiUpdates \cup {<<w, thread>> : w \in widgets}

\* _check_dependencies: the status line and the warning dialog
StatusLine(word, lo) ==
    Line("status", 0, 0,
         <<IF word THEN "MS Word detectado (docx2pdf)." ELSE "MS Word NAO detectado.",
           <<IF lo # "None" THEN "LibreOffice detectado."
             ELSE "LibreOffice NAO detectado. Instale para suporte a ODT/RTF.">>>>)

Init ==
    /\ system \in Systems
    /\ onPath \in BOOLEAN
    /\ \E docx2pdf \in ImportOutcomes :
         has_word = _check_word_installed(system, docx2pdf)
    /\ \E existing \in SUBSET InstallPaths(system) :
         libreoffice_path = _find_libreoffice(system, existing, onPath)
    /\ selected_files = <<>>
    /\ is_converting = FALSE
    /\ btn_file = [state |-> "normal", text |-> "Selecionar Arquivo(s)"]
    /\ btn_folder = [state |-> "normal", text |-> "Selecionar Pasta"]
    /\ btn_convert = [state |-> "disabled", text |-> "Converter para PDF"]
    /\ lbl_selection = Line("Nenhum arquivo selecionado", 0, 0, NoMsg)
    /\ progress_bar = <<0, 1>>
    /\ log_box = StatusLine(has_word, libreoffice_path)
    /\ messagebox = IF ~has_word /\ libreoffice_path = "None" THEN "Aviso" ELSE "none"
    /\ afterQueue = <<>>
    /\ threads = <<>>
    /\ uiUpdates = {<<w, "main">> : w \in {"btn_file", "btn_folder", "btn_convert",
                                            "lbl_selection", "progress_bar", "log_box"}}

\* select_files: the dialog hands back the chosen paths, none when cancelled
select_files ==
    /\ btn_file.state = "normal"
    /\ \E files \in FileLists :
         IF files # <<>>
         THEN /\ selected_files' = files
              /\ lbl_selection' = Line("arquivo(s) selecionado(s)", Len(files), 0, NoMsg)
              /\ btn_convert' = [btn_convert EXCEPT !.state = "normal"]
              /\ log_box' = Line("Selecionados: arquivos.", Len(files), 0, NoMsg)
              /\ uiUpdates' = Touch({"lbl_selection", "btn_convert", "log_box"}, "main")
         ELSE UNCHANGED <<selected_files, lbl_selection, btn_convert, log_box, uiUpdates>>
    /\ UNCHANGED <<env, is_converting, btn_file, btn_folder, progress_bar,
                   messagebox, afterQueue, threads>>

\* the test select_folder applies to each file name of the walk
IsCompatible(path) == Lower(SplitExt(Basename(path))) \in Range(supported_extensions)

\* select_folder: folder is "" when the dialog is cancelled; walk is what
\* os.walk finds under the folder, each name joined to its directory
select_folder ==
    /\ btn_folder.state = "normal"
    /\ \E folder \in {"", "dir"} :
        \E walk \in IF folder = "" THEN {<<>>} ELSE FileLists :
         LET found_files == SelectSeq(walk, IsCompatible)
         IN  IF folder = ""
             THEN UNCHANGED <<selected_files, lbl_selection, btn_convert, log_box, uiUpdates>>
             ELSE IF found_files # <<>>
             THEN /\ selected_files' = found_files
                  /\ lbl_selection' = Line("Pasta: ( arquivos compativeis)",
                                           Len(found_files), 0, NoMsg)
                  /\ btn_convert' = [btn_convert EXCEPT !.state = "normal"]
                  /\ log_box' = Line("Pasta selecionada. arquivos encontrados.",
                                     Len(found_files), 0, NoMsg)
                  /\ uiUpdates' = Touch({"lbl_selection", "btn_convert", "log_box"}, "main")
             ELSE /\ lbl_selection' =
                        Line("Nenhum arquivo compativel encontrado na pasta.", 0, 0, NoMsg)
                  /\ btn_convert' = [btn_convert EXCEPT !.state = "disabled"]
                  /\ uiUpdates' = Touch({"lbl_selection", "btn_convert"}, "main")
                  /\ UNCHANGED <<selected_files, log_box>>
    /\ UNCHANGED <<env, is_converting, btn_file, btn_folder, progress_bar,
                   messagebox, afterQueue, threads>>

\* A thread that has not run yet.  total, files (the list the loop walks),
\* i, success_count and last (the convert_to_pdf call whose result success
\* and msg hold) are run_conversion's locals; calls and results are the
\* history of its convert_to_pdf calls and of what each returned.
NewThread ==
    [pc |-> "begin", total |-> 0, files |-> <<>>, i |-> 0, success_count |-> 0,
     calls |-> <<>>, results |-> <<>>, last |-> <<>>]

\* start_conversion_thread, with the states it gives the convert button and
\* the two selection buttons
StartConversion(convertState, selectState) ==
    /\ btn_convert.state = "normal"
    /\ Len(threads) < MaxThreads
    /\ IF selected_files = <<>>
       THEN UNCHANGED <<is_converting, buttons, progress_bar, threads, uiUpdates>>
       ELSE /\ is_converting' = TRUE
            /\ btn_convert' = [state |-> convertState, text |-> "Convertendo..."]
            /\ btn_file' = [btn_file EXCEPT !.state = selectState]
            /\ btn_folder' = [btn_folder EXCEPT !.state = selectState]
            /\ progress_bar' = <<0, 1>>
            /\ threads' = Append(threads, NewThread)
            /\ uiUpdates' = Touch({"btn_convert", "btn_file", "btn_folder",
                                   "progress_bar"}, "main")
    /\ UNCHANGED <<env, selected_files, lbl_selection, log_box, messagebox,
                   afterQueue>>

\* the selection buttons left enabled
Mut_start_SelectEnabled == StartConversion("disabled", "normal")

\* the convert button left enabled
Mut_start_ConvertEnabled == StartConversion("normal", "disabled")

start_conversion_thread == StartConversion("disabled", "disabled")

\* run_conversion, first lines: total and the two opening log lines
run_conversion_begin(k) ==
    /\ threads[k].pc = "begin"
    /\ threads' = [threads EXCEPT ![k].pc = "enumerate",
                                  ![k].total = Len(selected_files)]
    /\ log_box' = Line("Iniciando conversao...", 0, 0, NoMsg)
    /\ uiUpdates' = Touch({"log_box"}, "worker")
    /\ UNCHANGED <<env, selected_files, is_converting, buttons, lbl_selection,
                   progress_bar, messagebox, afterQueue>>

\* enumerate(self.selected_files): the loop holds the list the field names now
run_conversion_enumerate(k) ==
    /\ threads[k].pc = "enumerate"
    /\ threads' = [threads EXCEPT ![k].pc = "loop", ![k].files = selected_files]
    /\ UNCHANGED <<env, selected_files, is_converting, buttons, lbl_selection,
                   progress_bar, log_box, messagebox, afterQueue, uiUpdates>>

\* What running the command can do: a bare "soffice" that is not on the
\* PATH cannot be launched.
RunOutcomes ==
    IF libreoffice_path = "soffice" /\ ~onPath
    THEN {o \in ProcOutcomes : o.kind = "oserror"}
    ELSE ProcOutcomes

\* one turn of the loop; stopOnFailure is whether a failure leaves the loop
LoopBody(k, stopOnFailure) ==
    LET t == threads[k]
    IN  /\ t.pc = "loop"
        /\ t.i < Len(t.files)
        /\ \E file_path \in {t.files[t.i + 1]} :
           \E output_folder \in {Dirname(file_path)} :
           \E wordOut \in WordOutcomes, procOut \in RunOutcomes :
           \E c \in {convert_to_pdf(has_word, libreoffice_path, file_path,
                                    output_folder, wordOut, procOut)} :
             LET success == c.result[1]
             IN  /\ threads' =
                      [threads EXCEPT
                         ![k].i = IF stopOnFailure /\ ~success THEN Len(t.files) ELSE @ + 1,
                         ![k].success_count = IF success THEN @ + 1 ELSE @,
                         ![k].calls = Append(@, file_path),
                         ![k].results = Append(@, success),
                         ![k].last = <<c>>]
                 /\ log_box' = Line(IF success THEN "[OK] " ELSE "[ERRO] ", 0, 0, c.result[2])
                 /\ progress_bar' = <<t.i + 1, t.total>>
                 /\ uiUpdates' = Touch({"log_box", "progress_bar"}, "worker")
        /\ UNCHANGED <<env, selected_files, is_converting, buttons, lbl_selection,
                       messagebox, afterQueue>>

\* a failed conversion ends the loop
Mut_run_StopOnFailure(k) == LoopBody(k, TRUE)

run_conversion_file(k) == LoopBody(k, FALSE)

\* after the loop: the closing log lines
run_conversion_summary(k) ==
    LET t == threads[k]
    IN  /\ t.pc = "loop"
        /\ t.i >= Len(t.files)
        /\ threads' = [threads EXCEPT ![k].pc = "summarised"]
        /\ log_box' = Line("Concluido! / arquivos convertidos.",
                           t.success_count, t.total, NoMsg)
        /\ uiUpdates' = Touch({"log_box"}, "worker")
        /\ UNCHANGED <<env, selected_files, is_converting, buttons, lbl_selection,
                       progress_bar, messagebox, afterQueue>>

RemoveAt(s, k) == SubSeq(s, 1, k - 1) \o SubSeq(s, k + 1, Len(s))

\* the thread ends without scheduling reset_ui
Mut_run_NoAfter(k) ==
    /\ threads[k].pc = "summarised"
    /\ threads' = RemoveAt(threads, k)
    /\ UNCHANGED <<env, selected_files, is_converting, buttons, lbl_selection,
                   progress_bar, log_box, messagebox, afterQueue, uiUpdates>>

\* self.after(0, self.reset_ui), and the thread ends
run_conversion_after(k) ==
    /\ threads[k].pc = "summarised"
    /\ afterQueue' = Append(afterQueue, "reset_ui")
    /\ threads' = RemoveAt(threads, k)
    /\ UNCHANGED <<env, selected_files, is_converting, buttons, lbl_selection,
                   progress_bar, log_box, messagebox, uiUpdates>>

\* reset_ui, run by the UI thread's event loop
reset_ui ==
    /\ afterQueue # <<>>
    /\ Head(afterQueue) = "reset_ui"
    /\ afterQueue' = Tail(afterQueue)
    /\ is_converting' = FALSE
    /\ btn_convert' = [state |-> "normal", text |-> "Converter para PDF"]
    /\ btn_file' = [btn_file EXCEPT !.state = "normal"]
    /\ btn_folder' = [btn_folder EXCEPT !.state = "normal"]
    /\ messagebox' = "Sucesso"
    /\ uiUpdates' = Touch({"btn_convert", "btn_file", "btn_folder"}, "main")
    /\ UNCHANGED <<env, selected_files, lbl_selection, progress_bar, log_box,
                   threads>>

\* a step of worker thread k
Worker(k) ==
    \/ run_conversion_begin(k)
    \/ run_conversion_enumerate(k)
    \/ run_conversion_file(k)
    \/ run_conversion_summary(k)
    \/ run_conversion_after(k)

Next ==
    \/ select_files
    \/ select_folder
    \/ start_conversion_thread
    \/ \E k \in DOMAIN threads : run_conversion_begin(k)
    \/ \E k \in DOMAIN threads : run_conversion_enumerate(k)
    \/ \E k \in DOMAIN threads : run_conversion_file(k)
    \/ \E k \in DOMAIN threads : run_conversion_summary(k)
    \/ \E k \in DOMAIN threads : run_conversion_after(k)
    \/ reset_ui

Spec == Init /\ [][Next]_vars

\* A started thread runs, and the event loop runs the callbacks scheduled
\* on it; the user is free never to act.
FairSpec ==
    /\ Spec
    /\ WF_vars(\E k \in DOMAIN threads : Worker(k))
    /\ WF_vars(reset_ui)

\* ------------------------------------------------------------------ claims

Workers == Range(threads)

\* the convert_to_pdf calls whose results the running workers hold
LastCalls == {t.last[1] : t \in {w \in Workers : w.last # <<>>}}

ExtOf(c) == Lower(SplitExt(c.input_path))
Supported(c) == ExtOf(c) \in Range(supported_extensions)
NoConverterMsg == <<"Nenhum conversor (Word ou LibreOffice) encontrado.", <<>>>>
SummaryTag == "Concluido! / arquivos convertidos."

\* C1: a path whose lower-cased extension is not one of the four supported
\* ones is refused, whatever the capability snapshot: convert_to_pdf
\* returns failure and invokes neither the word nor the headless backend.
C1_UnsupportedRejected ==
    \A c \in LastCalls :
        ~Supported(c) => /\ c.result[1] = FALSE
                         /\ c.word = 0
                         /\ c.headless = 0

\* an unsupported path refused although both backends are available
C1_Witness ==
    \E c \in LastCalls :
        /\ ~Supported(c)
        /\ has_word
        /\ libreoffice_path # "None"
        /\ c.result = <<FALSE, <<"Extensao nao suportada: ", ExtOf(c)>>>>

\* C2: when word is available, the extension is .docx or .doc and the word
\* backend raises, the headless backend is invoked exactly when it is
\* available; then the call returns what the headless backend returned
\* (success exactly on exit status 0), and otherwise it returns failure
\* with the word error text and the headless backend is not invoked.
C2_WordFailureFallback ==
    \A c \in LastCalls :
        (has_word /\ ExtOf(c) \in WordExtensions /\ c.wordOut.kind = "raise") =>
            /\ c.word = 1
            /\ (c.headless = 1) <=> (libreoffice_path # "None")
            /\ libreoffice_path # "None" =>
                   /\ c.result = c.headlessRet
                   /\ c.result[1] <=> (c.procOut.kind = "exit0")
            /\ libreoffice_path = "None" =>
                   /\ c.result = <<FALSE, <<"Erro Word: ", c.wordOut.text>>>>
                   /\ c.headless = 0

\* word raised on a .doc file and the fallback to the headless backend succeeded
C2_Witness ==
    \E c \in LastCalls :
        /\ has_word
        /\ ExtOf(c) = <<".", "d", "o", "c">>
        /\ c.wordOut.kind = "raise"
        /\ c.headless = 1
        /\ c.result[1] = TRUE

\* C3: with word unavailable and no headless converter, every supported
\* extension gets failure with the "no converter found" message, and no
\* backend is invoked.
C3_NoConverter ==
    \A c \in LastCalls :
        (~has_word /\ libreoffice_path = "None" /\ Supported(c)) =>
            /\ c.result = <<FALSE, NoConverterMsg>>
            /\ c.word = 0
            /\ c.headless = 0

\* a batch of an .rtf and a .docx file, both refused for want of a converter
C3_Witness ==
    \E t \in Workers :
        /\ ~has_word
        /\ libreoffice_path = "None"
        /\ t.results = <<FALSE, FALSE>>
        /\ {Lower(SplitExt(p)) : p \in Range(t.calls)} =
               {<<".", "r", "t", "f">>, <<".", "d", "o", "c", "x">>}
        /\ t.last[1].result = <<FALSE, NoConverterMsg>>

\* C4: with word unavailable and a headless converter, every supported
\* extension invokes the headless backend exactly once and never the word
\* backend, and the call succeeds exactly when the child exits with 0.
C4_HeadlessDirect ==
    \A c \in LastCalls :
        (~has_word /\ libreoffice_path # "None" /\ Supported(c)) =>
            /\ c.headless = 1
            /\ c.word = 0
            /\ c.result[1] <=> (c.procOut.kind = "exit0")

\* an .odt file converted by the headless backend on a host without word
C4_Witness ==
    \E c \in LastCalls :
        /\ ~has_word
        /\ ExtOf(c) = <<".", "o", "d", "t">>
        /\ c.headless = 1
        /\ c.procOut.kind = "exit0"
        /\ c.result[1] = TRUE

\* the number of failures among the results
Failures(results) == Cardinality({k \in DOMAIN results : ~results[k]})

\* C5: the worker calls convert_to_pdf once per selected file, in the order
\* of the list, a failure does not end the loop, and the summary line
\* reports N-K succeeded of N, K being the number of failed calls.
C5_BatchSummary ==
    \A t \in Workers :
        /\ Len(t.calls) <= Len(selected_files)
        /\ t.calls = SubSeq(selected_files, 1, Len(t.calls))
        /\ t.pc = "summarised" =>
              /\ t.calls = selected_files
              /\ Len(t.results) = Len(selected_files)
              /\ log_box.tag = SummaryTag
              /\ log_box.n = Len(selected_files) - Failures(t.results)
              /\ log_box.m = Len(selected_files)

\* a batch whose first file failed and whose second succeeded, summarised 1/2
C5_Witness ==
    \E t \in Workers :
        /\ t.pc = "summarised"
        /\ t.results = <<FALSE, TRUE>>
        /\ log_box.tag = SummaryTag
        /\ log_box.n = 1
        /\ log_box.m = 2

\* C6: every widget update is made by the UI thread; the worker thread
\* changes no widget itself.
C6_UiUpdatesOnUiThread == \A u \in uiUpdates : u[2] = "main"

\* C7: from the start of a worker until it has left run_conversion, the
\* selected-files list does not change and both selection buttons are
\* disabled.
C7_SelectionFrozen ==
    [][threads # <<>> => /\ selected_files' = selected_files
                         /\ btn_file.state = "disabled"
                         /\ btn_folder.state = "disabled"]_vars

\* a worker half way through a batch of two, the selection buttons disabled
C7_Witness ==
    \E t \in Workers :
        /\ t.pc = "loop"
        /\ t.i = 1
        /\ Len(t.files) = 2
        /\ t.files = selected_files
        /\ btn_file.state = "disabled"
        /\ btn_folder.state = "disabled"

\* the state reset_ui leaves: summary logged, flag cleared, controls enabled
BatchEnded ==
    /\ ~is_converting
    /\ log_box.tag = SummaryTag
    /\ messagebox = "Sucesso"
    /\ btn_file.state = "normal"
    /\ btn_folder.state = "normal"
    /\ btn_convert.state = "normal"

\* C8: every started batch ends by running to completion (summary logged,
\* converting flag cleared, the three controls enabled again), and the flag
\* is cleared in no other way.
C8_BatchCompletes ==
    /\ is_converting ~> BatchEnded
    /\ [][(is_converting /\ ~is_converting') =>
             (threads = <<>> /\ BatchEnded')]_vars

\* a batch of two files has run to completion
C8_Witness ==
    /\ BatchEnded
    /\ log_box.m = 2
    /\ threads = <<>>
    /\ afterQueue = <<>>

\* C9: off Windows, probing reports word as unavailable whether or not the
\* automation library can be imported.
C9_WordOnlyOnWindows == system # "Windows" => has_word = FALSE

\* a batch under way on a non-Windows host, word unavailable
C9_Witness ==
    /\ system = "Darwin"
    /\ has_word = FALSE
    /\ is_converting

\* C10: at most one worker exists at any time, counting a worker whose
\* reset_ui has not run yet, and the convert button is disabled for as
\* long as one does.
C10_SingleWorker ==
    /\ Len(threads) + Len(afterQueue) <= 1
    /\ (threads # <<>> \/ afterQueue # <<>>) => btn_convert.state = "disabled"

\* a worker has finished and its reset_ui is still to run
C10_Witness ==
    /\ threads = <<>>
    /\ afterQueue = <<"reset_ui">>
    /\ is_converting
    /\ btn_convert.state = "disabled"

=============================================================================
